---- MODULE Spec2Model ----
(***************************************************************************)
(* A model of the space-map layer of thin-provisioning-tools               *)
(* (src/pdata/space_map.rs), of the metadata generator                     *)
(* (src/thin/metadata_generator.rs) and of the thin_dump behaviour pinned  *)
(* by tests/thin_dump.rs.                                                  *)
(***************************************************************************)
EXTENDS Integers, Sequences, FiniteSets, TLC

VARIABLES
    \* ---- in-core space map (CoreSpaceMap<V> behind core_sm) ----
    nr_entries,       \* argument of core_sm
    max_count,        \* argument of core_sm
    width,            \* the element type V chosen by core_sm: "u8", "u16", "u32"
    counts,           \* CoreSpaceMap.counts, indexed 0 .. nr_entries-1
    hist,             \* ghost: per block, the number of completed in-range inc calls covering it
    result,           \* outcome of the last inc call: "none", "Ok", "panic"
    overflow_checks,  \* build profile: TRUE = arithmetic overflow panics, FALSE = it wraps
    \* ---- on-disk (two-tier) space map ----
    bitmap,           \* per block, the raw 2-bit bitmap entry
    overflow,         \* the overflow refcount tree: block -> 32-bit count
    \* ---- codecs ----
    kind,             \* which record is unpacked: "SMRoot", "IndexEntry", "Bitmap"
    buf,              \* the byte slice handed to unpack
    out,              \* the value unpack returned, << >> before the call
    \* ---- metadata generator (thin_generate_metadata) ----
    dev,              \* the output device: block 0 and the trees behind its roots
    dev_before,       \* ghost: the device before the last operation
    gen_op,           \* the last MetadataOp run: "none", "Format", "SetNeedsCheck"
    gen_result,       \* what generate_metadata returned: "none", "Ok", "Err"
    engine,           \* the I/O engine generate_metadata built last
    \* ---- thin_dump / thin_restore as the tests drive them ----
    md,               \* the metadata image under test
    xml,              \* the file the first dump's stdout is saved to
    md2,              \* the zeroed image thin_restore writes
    run,              \* the last thin_dump process: its arguments, exit code, stderr, stdout
    pc,               \* where the test stands
    rust_tests        \* the feature the tests are built with: the Rust tools are under test

vars == <<nr_entries, max_count, width, counts, hist, result, overflow_checks,
          bitmap, overflow, kind, buf, out,
          dev, dev_before, gen_op, gen_result, engine,
          md, xml, md2, run, pc, rust_tests>>

dump_vars == <<md, xml, md2, run, pc, rust_tests>>

gen_vars == <<dev, dev_before, gen_op, gen_result, engine>>

disk_sm_vars == <<bitmap, overflow>>

codec_vars == <<kind, buf, out>>

core_vars == <<nr_entries, max_count, width, counts, hist, result, overflow_checks>>

-----------------------------------------------------------------------------
(* Bounds of the model.                                                    *)

\* the values of nr_entries handed to core_sm
NrEntries == {0, 1, 2}

\* largest begin handed to inc
MaxBegin == 2

\* largest number of inc calls that may cover one block
MaxIncs == 256

\* largest len handed to inc
MaxLen == 2

\* the values of max_count handed to core_sm: both sides of each width boundary
MaxCounts == {0, 255, 256, 65535, 65536, 2147483647}

-----------------------------------------------------------------------------
(* Element widths.                                                         *)

Widths == {"u8", "u16", "u32"}

\* number of bits of an element type
Bits(w) == CASE w = "u8" -> 8 [] w = "u16" -> 16 [] w = "u32" -> 32

\* c is the type's largest value, 2^Bits(w) - 1: both halves are all ones
IsTypeMax(w, c) ==
    LET h == 2 ^ (Bits(w) \div 2)
    IN  c \div h = h - 1 /\ c % h = h - 1

\* m fits in the type: m < 2^Bits(w)
Holds(w, m) ==
    LET h == 2 ^ (Bits(w) \div 2)
    IN  m \div h < h

-----------------------------------------------------------------------------
(* core_sm, CoreSpaceMap::new, get, inc.                                   *)

\* a faulty variant of core_sm: strict comparisons
core_sm_strict(mc) ==
    IF mc < 255 THEN "u8" ELSE IF mc < 65535 THEN "u16" ELSE "u32"

\* core_sm: the element type chosen for max_count
core_sm(mc) ==
    IF mc <= 255 THEN "u8" ELSE IF mc <= 65535 THEN "u16" ELSE "u32"

\* CoreSpaceMap::new: vec![V::default(); nr_entries]
CoreSpaceMap_new(n) == [b \in 0 .. (n - 1) |-> 0]

\* Vec::len of the counts
len_counts(cs) == Cardinality(DOMAIN cs)

\* get: counts[b].into(), defined for b inside the vector
get(b) == counts[b]

\* The loop of inc from block b to end (exclusive) on counts cs.  Indexing
\* outside the vector panics; += at the type's maximum panics when the build
\* checks overflow and wraps to 0 when it does not.  Either panic leaves the
\* increments made so far in the vector.
RECURSIVE inc_loop(_, _, _, _, _)
inc_loop(cs, w, oc, b, end) ==
    IF b >= end THEN [counts |-> cs, result |-> "Ok"]
    ELSE IF b >= len_counts(cs) THEN [counts |-> cs, result |-> "panic"]
    ELSE IF IsTypeMax(w, cs[b])
         THEN IF oc THEN [counts |-> cs, result |-> "panic"]
                    ELSE inc_loop([cs EXCEPT ![b] = 0], w, oc, b + 1, end)
    ELSE inc_loop([cs EXCEPT ![b] = cs[b] + 1], w, oc, b + 1, end)

\* ghost: the inc history after an in-range call inc(begin, len)
hist_after(h, begin, len) ==
    [b \in DOMAIN h |-> IF begin <= b /\ b < begin + len THEN h[b] + 1 ELSE h[b]]

InRange(begin, len) == begin + len <= nr_entries

\* inc(begin, len) on the shared map
inc(begin, len) ==
    /\ result # "panic"
    /\ \A b \in DOMAIN hist : (begin <= b /\ b < begin + len) => hist[b] < MaxIncs
    /\ LET r == inc_loop(counts, width, overflow_checks, begin, begin + len)
       IN  /\ counts' = r.counts
           /\ result' = r.result
           /\ hist' = IF InRange(begin, len) /\ r.result = "Ok"
                      THEN hist_after(hist, begin, len) ELSE hist
    /\ UNCHANGED <<nr_entries, max_count, width, overflow_checks>>
    /\ UNCHANGED <<disk_sm_vars, codec_vars, gen_vars, dump_vars>>

\* the in-core map before core_sm is called
core_idle ==
    /\ nr_entries = 0 /\ max_count = 0 /\ width = "u8" /\ counts = << >>
    /\ hist = << >> /\ result = "none" /\ overflow_checks = FALSE

\* the on-disk space map before it is opened
disk_sm_idle == bitmap = << >> /\ overflow = << >>

\* the codecs before any slice is handed to them
codec_idle == kind = "none" /\ buf = << >> /\ out = << >>

\* the metadata generator before it is run
gen_idle ==
    /\ dev = << >> /\ dev_before = << >> /\ gen_op = "none"
    /\ gen_result = "none" /\ engine = << >>

\* thin_dump and thin_restore before any test runs
dump_idle ==
    /\ md = << >> /\ xml = << >> /\ md2 = << >> /\ run = << >>
    /\ pc = "none" /\ rust_tests = FALSE

Init ==
    /\ nr_entries \in NrEntries
    /\ max_count \in MaxCounts
    /\ width = core_sm(max_count)
    /\ counts = CoreSpaceMap_new(nr_entries)
    /\ hist = [b \in 0 .. (nr_entries - 1) |-> 0]
    /\ result = "none"
    /\ overflow_checks \in BOOLEAN
    /\ disk_sm_idle /\ codec_idle /\ gen_idle /\ dump_idle

Next == \E begin \in 0 .. MaxBegin, len \in 0 .. MaxLen : inc(begin, len)

Spec == Init /\ [][Next]_vars

\* the number of inc calls made so far whose range contains b
calls_covering(b) == hist[b]

\* C1: as long as the calls' ranges lie inside [0, nr_entries), get(b) is, for
\* every block b < nr_entries, the number of inc calls whose range contains b
\* (0 on a fresh map).
C1_GetAgreesWithHistory ==
    (result # "panic") =>
        \A b \in 0 .. (nr_entries - 1) : get(b) = calls_covering(b)

\* C4: the width follows from max_count alone (u8 up to 255, u16 up to 65535,
\* u32 above), the chosen width can hold max_count, and the new map has
\* nr_entries counts, all 0.
C4_WidthFromMaxCount ==
    /\ (width = "u8") <=> (max_count <= 255)
    /\ (width = "u16") <=> (255 < max_count /\ max_count <= 65535)
    /\ (width = "u32") <=> (65535 < max_count)
    /\ Holds(width, max_count)
    /\ DOMAIN counts = 0 .. (nr_entries - 1)
    /\ (result = "none") => \A b \in DOMAIN counts : counts[b] = 0

\* C4's case: a fresh two-entry map built for max_count = 256, one past the
\* u8 boundary
C4_Witness ==
    /\ result = "none" /\ max_count = 256 /\ width = "u16" /\ nr_entries = 2
    /\ counts = [b \in 0 .. 1 |-> 0]

\* C10: every inc(begin, len) is all-or-nothing: either each block of
\* [begin, begin+len) is raised by exactly 1 and Ok is returned, or no count
\* has changed; and no count is ever lowered.
C10_IncAllOrNothing ==
    [][\A begin \in 0 .. MaxBegin, len \in 0 .. MaxLen :
         inc(begin, len) =>
           /\ \/ /\ result' = "Ok"
                 /\ \A b \in begin .. (begin + len - 1) :
                      b \in DOMAIN counts /\ counts'[b] = counts[b] + 1
              \/ counts' = counts
           /\ \A b \in DOMAIN counts : counts'[b] >= counts[b]]_vars

-----------------------------------------------------------------------------
(* The on-disk space map: a 2-bit bitmap entry per block and the overflow  *)
(* refcount tree.  Entries are read through Bitmap::unpack's decoding.     *)

\* number of blocks the space map covers
NrBlocks == 3

\* largest reference count a block is given
MaxRef == 5

Blocks == 0 .. (NrBlocks - 1)

Small(v) == <<"Small", v>>

Overflow == <<"Overflow">>

\* a faulty variant of decode_entry: the comparison val <= 3 never yields Overflow
decode_entry_no_overflow(val) == IF val <= 3 THEN Small(val) ELSE Overflow

\* a faulty variant of decode_entry: the comparison val < 2 sends 2 to Overflow
decode_entry_early_overflow(val) == IF val < 2 THEN Small(val) ELSE Overflow

\* the body of Bitmap::unpack's inner loop: one 2-bit field to a BitmapEntry
decode_entry(val) == IF val < 3 THEN Small(val) ELSE Overflow

\* the overflow tree with block b mapped to n
tree_insert(ov, b, n) == [x \in DOMAIN ov \cup {b} |-> IF x = b THEN n ELSE ov[x]]

\* the overflow tree without block b
tree_delete(ov, b) == [x \in DOMAIN ov \ {b} |-> ov[x]]

\* the reference count of block b: the bitmap entry, or the tree's count
sm_get(bm, ov, b) ==
    LET e == decode_entry(bm[b])
    IN  IF e = Overflow THEN (IF b \in DOMAIN ov THEN ov[b] ELSE -1) ELSE e[2]

\* one block's increment: bits only inside {0,1,2}; crossing to 3 inserts
\* into the overflow tree and sets the entry to 3; above that the tree's
\* count is raised.  A missing tree entry is a lookup error: nothing changes.
sm_inc_block(bm, ov, b) ==
    LET e == decode_entry(bm[b])
    IN  IF e = Overflow
        THEN IF b \in DOMAIN ov
             THEN [bitmap |-> bm, overflow |-> [ov EXCEPT ![b] = ov[b] + 1]]
             ELSE [bitmap |-> bm, overflow |-> ov]
        ELSE IF e[2] + 1 < 3
             THEN [bitmap |-> [bm EXCEPT ![b] = e[2] + 1], overflow |-> ov]
             ELSE [bitmap |-> [bm EXCEPT ![b] = 3], overflow |-> tree_insert(ov, b, 3)]

\* one block's decrement: from 3 back to 2 deletes the tree entry and writes
\* the bitmap value; above 3 the tree's count is lowered; inside {1,2} bits only
sm_dec_block(bm, ov, b) ==
    LET e == decode_entry(bm[b])
    IN  IF e = Overflow
        THEN IF b \notin DOMAIN ov
             THEN [bitmap |-> bm, overflow |-> ov]
             ELSE IF ov[b] = 3
             THEN [bitmap |-> [bm EXCEPT ![b] = 2], overflow |-> tree_delete(ov, b)]
             ELSE [bitmap |-> bm, overflow |-> [ov EXCEPT ![b] = ov[b] - 1]]
        ELSE IF e[2] > 0
             THEN [bitmap |-> [bm EXCEPT ![b] = e[2] - 1], overflow |-> ov]
             ELSE [bitmap |-> bm, overflow |-> ov]

RECURSIVE sm_inc_range(_, _, _, _)
sm_inc_range(bm, ov, b, end) ==
    IF b >= end THEN [bitmap |-> bm, overflow |-> ov]
    ELSE LET r == sm_inc_block(bm, ov, b)
         IN  sm_inc_range(r.bitmap, r.overflow, b + 1, end)

RECURSIVE sm_dec_range(_, _, _, _)
sm_dec_range(bm, ov, b, end) ==
    IF b >= end THEN [bitmap |-> bm, overflow |-> ov]
    ELSE LET r == sm_dec_block(bm, ov, b)
         IN  sm_dec_range(r.bitmap, r.overflow, b + 1, end)

\* inc(begin, len) of the on-disk space map
sm_inc(begin, len) ==
    /\ begin + len <= NrBlocks
    /\ \A b \in begin .. (begin + len - 1) : sm_get(bitmap, overflow, b) < MaxRef
    /\ LET r == sm_inc_range(bitmap, overflow, begin, begin + len)
       IN  bitmap' = r.bitmap /\ overflow' = r.overflow
    /\ UNCHANGED <<core_vars, codec_vars, gen_vars, dump_vars>>

\* dec(begin, len) of the on-disk space map, on blocks that are referenced
sm_dec(begin, len) ==
    /\ begin + len <= NrBlocks
    /\ \A b \in begin .. (begin + len - 1) : sm_get(bitmap, overflow, b) > 0
    /\ LET r == sm_dec_range(bitmap, overflow, begin, begin + len)
       IN  bitmap' = r.bitmap /\ overflow' = r.overflow
    /\ UNCHANGED <<core_vars, codec_vars, gen_vars, dump_vars>>

InitDiskSm ==
    /\ bitmap = [b \in Blocks |-> 0]
    /\ overflow = << >>
    /\ core_idle /\ codec_idle /\ gen_idle /\ dump_idle

NextDiskSm ==
    \/ \E begin \in Blocks, len \in 1 .. NrBlocks : sm_inc(begin, len)
    \/ \E begin \in Blocks, len \in 1 .. NrBlocks : sm_dec(begin, len)

SpecDiskSm == InitDiskSm /\ [][NextDiskSm]_vars

\* C2: in every reachable state a block's bitmap entry is 3, decoded as
\* Overflow, exactly when the overflow tree holds an entry for the block; and
\* every step that moves an entry into (out of) Overflow inserts (deletes) the
\* block's tree entry in that same step.
C2_OverflowIffTree ==
    /\ [](\A b \in Blocks :
            /\ (bitmap[b] = 3) <=> (decode_entry(bitmap[b]) = Overflow)
            /\ (decode_entry(bitmap[b]) = Overflow) <=> (b \in DOMAIN overflow))
    /\ [][\A b \in Blocks :
            /\ (bitmap[b] # 3 /\ bitmap'[b] = 3)
                 => (b \notin DOMAIN overflow /\ b \in DOMAIN overflow')
            /\ (bitmap[b] = 3 /\ bitmap'[b] # 3)
                 => (b \in DOMAIN overflow /\ b \notin DOMAIN overflow')]_vars

\* C2's case: after inc and dec steps one block is in Overflow with a count
\* above 3 and another holds 2 with no entry in the tree
C2_Witness ==
    /\ bitmap # << >>
    /\ \E b \in Blocks : bitmap[b] = 3 /\ b \in DOMAIN overflow /\ overflow[b] > 3
    /\ \E b \in Blocks : bitmap[b] = 2 /\ b \notin DOMAIN overflow

-----------------------------------------------------------------------------
(* The codecs.  A byte slice is a sequence of bytes; a parser returns the  *)
(* position it stopped at (nom's remaining input) and the value.  An       *)
(* unsigned integer is held as its base-256 numeral, most significant      *)
(* digit first: <<d7, ..., d0>> is d7*256^7 + ... + d0.                    *)

\* size of a metadata block in bytes
BLOCK_SIZE == 4096

\* number of byte patterns the slices are filled with
NrPatterns == 6

\* how far a slice's length strays on either side of the record's disk size
MaxSlack == 1

\* byte k (from 0) of pattern p
Pat(p, k) ==
    CASE p = 1 -> 0
      [] p = 2 -> 255
      [] p = 3 -> (k + 1) % 256
      [] p = 4 -> 228
      [] p = 5 -> 27
      [] OTHER -> (k * 37 + 11 * p) % 256

ByteSeq(p, n) == [k \in 1 .. n |-> Pat(p, k - 1)]

\* nom's error for input that ends before the number does
Err == [ok |-> FALSE, err |-> "Eof"]

\* a faulty variant of le_uint: the bytes taken in big-endian order
le_uint_big_endian(data, pos, n) ==
    IF Len(data) - pos < n THEN Err
    ELSE [ok |-> TRUE, pos |-> pos + n, val |-> [j \in 1 .. n |-> data[pos + j]]]

\* nom's le_u32 / le_u64 on the slice data[pos+1 ..]: n bytes, least
\* significant first; too few bytes is an error
le_uint(data, pos, n) ==
    IF Len(data) - pos < n THEN Err
    ELSE [ok |-> TRUE, pos |-> pos + n, val |-> [j \in 1 .. n |-> data[pos + n + 1 - j]]]

le_u64(data, pos) == le_uint(data, pos, 8)

le_u32(data, pos) == le_uint(data, pos, 4)

\* the input left after position pos
rest_of(data, pos) == SubSeq(data, pos + 1, Len(data))

\* SMRoot::unpack
SMRoot_unpack(data) ==
    LET a == le_u64(data, 0)
        b == IF a.ok THEN le_u64(data, a.pos) ELSE Err
        c == IF b.ok THEN le_u64(data, b.pos) ELSE Err
        d == IF c.ok THEN le_u64(data, c.pos) ELSE Err
    IN  IF ~d.ok THEN Err
        ELSE [ok |-> TRUE, rest |-> rest_of(data, d.pos),
              val |-> [nr_blocks |-> a.val, nr_allocated |-> b.val,
                       bitmap_root |-> c.val, ref_count_root |-> d.val]]

\* unpack_root: SMRoot::unpack with the remaining input dropped
unpack_root(data) ==
    LET r == SMRoot_unpack(data)
    IN  IF r.ok THEN [ok |-> TRUE, val |-> r.val]
        ELSE [ok |-> FALSE, err |-> "couldn't parse SMRoot"]

\* IndexEntry::unpack
IndexEntry_unpack(data) ==
    LET a == le_u64(data, 0)
        b == IF a.ok THEN le_u32(data, a.pos) ELSE Err
        c == IF b.ok THEN le_u32(data, b.pos) ELSE Err
    IN  IF ~c.ok THEN Err
        ELSE [ok |-> TRUE, rest |-> rest_of(data, c.pos),
              val |-> [blocknr |-> a.val, nr_free |-> b.val,
                       none_free_before |-> c.val]]

\* BitmapHeader::unpack, from the start of the slice
BitmapHeader_unpack(data) ==
    LET a == le_u32(data, 0)
        b == IF a.ok THEN le_u32(data, a.pos) ELSE Err
        c == IF b.ok THEN le_u64(data, b.pos) ELSE Err
    IN  IF ~c.ok THEN Err
        ELSE [ok |-> TRUE, pos |-> c.pos,
              val |-> [csum |-> a.val, not_used |-> b.val, blocknr |-> c.val]]

BitmapHeader_disk_size == 16

\* word & 0x3 on a 64-bit numeral
and3(word) == word[8] % 4

\* word >> 2 on a 64-bit numeral
shr2(word) ==
    <<word[1] \div 4,
      (word[2] \div 4) + (word[1] % 4) * 64,
      (word[3] \div 4) + (word[2] % 4) * 64,
      (word[4] \div 4) + (word[3] % 4) * 64,
      (word[5] \div 4) + (word[4] % 4) * 64,
      (word[6] \div 4) + (word[5] % 4) * 64,
      (word[7] \div 4) + (word[6] % 4) * 64,
      (word[8] \div 4) + (word[7] % 4) * 64>>

\* the inner loop of Bitmap::unpack: the entries of one word from field b on
RECURSIVE word_entries(_, _)
word_entries(word, b) ==
    IF b >= 32 THEN << >>
    ELSE <<decode_entry(and3(word))>> \o word_entries(shr2(word), b + 1)

\* the outer loop of Bitmap::unpack over n words, reading at position pos: a
\* word that cannot be read ends the loop with the error.  The iterations are
\* evaluated in two halves, the second starting where the first stopped.
RECURSIVE words_loop(_, _, _)
words_loop(data, pos, n) ==
    IF n = 0 THEN [ok |-> TRUE, pos |-> pos, entries |-> << >>]
    ELSE IF n = 1
    THEN LET r == le_u64(data, pos)
         IN  IF ~r.ok THEN Err
             ELSE [ok |-> TRUE, pos |-> r.pos, entries |-> word_entries(r.val, 0)]
    ELSE LET l == words_loop(data, pos, n \div 2)
             r == IF l.ok THEN words_loop(data, l.pos, n - (n \div 2)) ELSE Err
         IN  IF ~r.ok THEN Err
             ELSE [ok |-> TRUE, pos |-> r.pos, entries |-> l.entries \o r.entries]

\* Bitmap::unpack
Bitmap_unpack(data) ==
    LET h == BitmapHeader_unpack(data)
        nr_words == (BLOCK_SIZE - BitmapHeader_disk_size) \div 8
        r == IF h.ok THEN words_loop(data, h.pos, nr_words) ELSE Err
    IN  IF ~r.ok THEN Err
        ELSE [ok |-> TRUE, rest |-> rest_of(data, r.pos),
              val |-> [header |-> h.val, entries |-> r.entries]]

\* Unpack::disk_size of each record
disk_size(k) ==
    CASE k = "SMRoot" -> 32 [] k = "unpack_root" -> 32
      [] k = "IndexEntry" -> 16 [] k = "Bitmap" -> BLOCK_SIZE

Kinds == {"SMRoot", "unpack_root", "IndexEntry", "Bitmap"}

\* the slice lengths tried for a record: empty, one field, and around its disk size
Lengths(k) == {0, 8} \cup ((disk_size(k) - MaxSlack) .. (disk_size(k) + MaxSlack))

DoUnpackSMRoot ==
    /\ kind = "SMRoot" /\ out = << >>
    /\ out' = SMRoot_unpack(buf)
    /\ UNCHANGED <<kind, buf, core_vars, disk_sm_vars, gen_vars, dump_vars>>

DoUnpackRoot ==
    /\ kind = "unpack_root" /\ out = << >>
    /\ out' = unpack_root(buf)
    /\ UNCHANGED <<kind, buf, core_vars, disk_sm_vars, gen_vars, dump_vars>>

DoUnpackIndexEntry ==
    /\ kind = "IndexEntry" /\ out = << >>
    /\ out' = IndexEntry_unpack(buf)
    /\ UNCHANGED <<kind, buf, core_vars, disk_sm_vars, gen_vars, dump_vars>>

DoUnpackBitmap ==
    /\ kind = "Bitmap" /\ out = << >>
    /\ out' = Bitmap_unpack(buf)
    /\ UNCHANGED <<kind, buf, core_vars, disk_sm_vars, gen_vars, dump_vars>>

InitCodec ==
    /\ kind \in Kinds
    /\ \E p \in 1 .. NrPatterns, n \in Lengths(kind) : buf = ByteSeq(p, n)
    /\ out = << >>
    /\ core_idle /\ disk_sm_idle /\ gen_idle /\ dump_idle

NextCodec ==
    \/ DoUnpackSMRoot
    \/ DoUnpackRoot
    \/ DoUnpackIndexEntry
    \/ DoUnpackBitmap

SpecCodec == InitCodec /\ [][NextCodec]_vars

\* digit of weight 256^k of a numeral
Digit(num, k) == num[Len(num) - k]

\* the numeral num is the little-endian reading of the n bytes of data from
\* offset off (from 0)
IsLittleEndianAt(num, data, off, n) ==
    /\ Len(num) = n
    /\ \A k \in 0 .. (n - 1) : Digit(num, k) = data[off + k + 1]

\* the 2-bit field of entry i (from 0) of a bitmap block: bits 2*(i mod 32)
\* and 2*(i mod 32)+1 of the little-endian 64-bit word i div 32 after the
\* 16-byte header
FieldOf(data, i) ==
    (data[16 + 8 * (i \div 32) + ((i % 32) \div 4) + 1] \div (4 ^ (i % 4))) % 4

\* C3: Bitmap::unpack of a 4096-byte block yields exactly 16320 entries, entry
\* i being the 2-bit field at bits 2*(i mod 32), 2*(i mod 32)+1 of little-endian
\* word i div 32 after the header: a field in {0,1,2} is Small(field), the
\* field 3 is Overflow, and no entry is Small(3).
C3_BitmapUnpackLayout ==
    (kind = "Bitmap" /\ Len(buf) = BLOCK_SIZE /\ out # << >>) =>
        /\ out.ok
        /\ Len(out.val.entries) = 16320
        /\ \A i \in 0 .. 16319 :
             /\ out.val.entries[i + 1] =
                  (IF FieldOf(buf, i) = 3 THEN <<"Overflow">>
                   ELSE <<"Small", FieldOf(buf, i)>>)
             /\ out.val.entries[i + 1] # <<"Small", 3>>

\* C3's case: a full block whose first byte after the header packs the fields
\* 0, 1, 2, 3 has been unpacked
C3_Witness ==
    /\ kind = "Bitmap" /\ Len(buf) = BLOCK_SIZE /\ out # << >> /\ out.ok
    /\ buf[17] = 228
    /\ SubSeq(out.val.entries, 1, 4) =
         <<<<"Small", 0>>, <<"Small", 1>>, <<"Small", 2>>, <<"Overflow">>>>

\* the fields of each record are the little-endian readings, in the declared
\* order, of the leading bytes of the slice
FieldsDecoded ==
    CASE kind \in {"SMRoot", "unpack_root"} ->
           /\ IsLittleEndianAt(out.val.nr_blocks, buf, 0, 8)
           /\ IsLittleEndianAt(out.val.nr_allocated, buf, 8, 8)
           /\ IsLittleEndianAt(out.val.bitmap_root, buf, 16, 8)
           /\ IsLittleEndianAt(out.val.ref_count_root, buf, 24, 8)
      [] kind = "IndexEntry" ->
           /\ IsLittleEndianAt(out.val.blocknr, buf, 0, 8)
           /\ IsLittleEndianAt(out.val.nr_free, buf, 8, 4)
           /\ IsLittleEndianAt(out.val.none_free_before, buf, 12, 4)
      [] kind = "Bitmap" ->
           /\ IsLittleEndianAt(out.val.header.csum, buf, 0, 4)
           /\ IsLittleEndianAt(out.val.header.not_used, buf, 4, 4)
           /\ IsLittleEndianAt(out.val.header.blocknr, buf, 8, 8)

\* C6 as stated: a slice whose length differs from the record's disk size is
\* answered with an error; a slice of the right length is decoded
\* little-endian in the declared order.
C6_LengthMismatchIsError ==
    (out # << >>) =>
        /\ (Len(buf) # disk_size(kind)) => ~out.ok
        /\ (Len(buf) = disk_size(kind)) => (out.ok /\ FieldsDecoded)

\* C6 amended: a slice shorter than the record's disk size is answered with an
\* error; a slice at least that long is decoded little-endian in the declared
\* order from its leading bytes, and the bytes after the record are handed
\* back as the remaining input (unpack_root drops them).
C6_ShortSliceIsError ==
    (out # << >>) =>
        /\ (Len(buf) < disk_size(kind)) =>
             (~out.ok /\ out.err \in {"Eof", "couldn't parse SMRoot"})
        /\ (Len(buf) >= disk_size(kind)) =>
             /\ out.ok
             /\ FieldsDecoded
             /\ kind # "unpack_root" =>
                  out.rest = SubSeq(buf, disk_size(kind) + 1, Len(buf))

\* C6's case: an IndexEntry unpacked from a slice one byte longer than its
\* disk size, and the extra byte left over
C6_Witness ==
    /\ kind = "IndexEntry" /\ Len(buf) = 17 /\ out # << >> /\ out.ok
    /\ out.rest = <<buf[17]>>
    /\ buf[1] # buf[8]

-----------------------------------------------------------------------------
(* The metadata device and the metadata generator.  A device is block 0    *)
(* (the packed superblock) and the thin devices' mappings held in the      *)
(* trees behind the superblock's roots.                                    *)

\* largest transaction id of an image
MaxTid == 1

\* largest time stamp of an image
MaxTime == 1

\* the data block sizes (in sectors) of the images
DataBlockSizes == {128, 8192}

\* the data device sizes (in data blocks) of the images
NrDataBlocks == {20480}

\* the logical CPU counts of the machines generate_metadata runs on
NumCpus == {1, 4, 8}

MAX_CONCURRENT_IO == 1024

SUPERBLOCK_LOCATION == 0

SUPERBLOCK_MAGIC == 27022010

SUPERBLOCK_VERSION == 2

\* a block of zeros read as a superblock
ZeroBlock ==
    [csum |-> 0, flags |-> 0, blocknr |-> 0, magic |-> 0, version |-> 0,
     time |-> 0, transaction_id |-> 0, mapping_root |-> 0, details_root |-> 0,
     data_block_size |-> 0, nr_data_blocks |-> 0]

\* the checksum of a superblock block: a function of every byte after the
\* checksum field
Csum(b) ==
    (b.flags * 3 + b.blocknr * 5 + (b.magic % 1009) + b.version * 7
       + b.time * 11 + b.transaction_id * 13 + b.mapping_root * 17
       + b.details_root * 19 + (b.data_block_size % 1013) * 23
       + (b.nr_data_blocks % 1019) * 29 + 160774) % 65521

\* read_superblock: block loc of the device, validated (magic, version,
\* checksum, self-reference) and decoded
read_superblock(d, loc) ==
    LET b == d.sb
    IN  IF loc # SUPERBLOCK_LOCATION \/ b.magic # SUPERBLOCK_MAGIC
           \/ b.version # SUPERBLOCK_VERSION \/ b.blocknr # loc
           \/ b.csum # Csum(b)
        THEN [ok |-> FALSE]
        ELSE [ok |-> TRUE,
              val |-> [flags |-> [needs_check |-> (b.flags % 2 = 1)],
                       block |-> b.blocknr, version |-> b.version,
                       time |-> b.time, transaction_id |-> b.transaction_id,
                       mapping_root |-> b.mapping_root,
                       details_root |-> b.details_root,
                       data_block_size |-> b.data_block_size,
                       nr_data_blocks |-> b.nr_data_blocks]]

\* the block a superblock is packed into, checksum last
pack_superblock(sb, loc) ==
    LET b == [csum |-> 0, flags |-> (IF sb.flags.needs_check THEN 1 ELSE 0),
              blocknr |-> loc, magic |-> SUPERBLOCK_MAGIC,
              version |-> sb.version, time |-> sb.time,
              transaction_id |-> sb.transaction_id,
              mapping_root |-> sb.mapping_root,
              details_root |-> sb.details_root,
              data_block_size |-> sb.data_block_size,
              nr_data_blocks |-> sb.nr_data_blocks]
    IN  [b EXCEPT !.csum = Csum(b)]

\* write_superblock: the superblock packed, checksummed and written to block loc
write_superblock(d, loc, sb) ==
    [dev |-> [d EXCEPT !.sb = pack_superblock(sb, loc)], result |-> "Ok"]

\* the engine generate_metadata builds for --async-io or without it
make_engine(async_io, num_cpus) ==
    IF async_io
    THEN [kind |-> "AsyncIoEngine", queue_depth |-> MAX_CONCURRENT_IO, writable |-> TRUE]
    ELSE [kind |-> "SyncIoEngine",
          nr_threads |-> (IF 8 >= num_cpus * 2 THEN 8 ELSE num_cpus * 2),
          writable |-> TRUE]

\* ThinGenerator::generate_metadata: succeeds without a single call on the visitor
ThinGenerator_generate_metadata == [result |-> "Ok", calls |-> << >>]

\* the Restorer driven by a sequence of visitor calls, writing through the
\* write batcher: no call, nothing written
RECURSIVE restorer_apply(_, _)
restorer_apply(d, calls) ==
    IF calls = << >> THEN d
    ELSE restorer_apply(
           IF Head(calls).op = "superblock_b"
           THEN write_superblock([sb |-> ZeroBlock, maps |-> << >>],
                                 SUPERBLOCK_LOCATION, Head(calls).sb).dev
           ELSE d,
           Tail(calls))

\* format: a space map, a write batcher and a restorer are built over the
\* engine, and the generator is run against the restorer
format(d) ==
    LET g == ThinGenerator_generate_metadata
    IN  [dev |-> restorer_apply(d, g.calls), result |-> g.result]

\* a faulty variant of set_needs_check: the flag is flipped instead of set
set_needs_check_flip(d) ==
    LET r == read_superblock(d, SUPERBLOCK_LOCATION)
    IN  IF ~r.ok THEN [dev |-> d, result |-> "Err"]
        ELSE write_superblock(d, SUPERBLOCK_LOCATION,
               [r.val EXCEPT !.flags.needs_check = ~r.val.flags.needs_check])

\* set_needs_check: read the superblock (an unreadable one is the error
\* returned), set the flag, write it back
set_needs_check(d) ==
    LET r == read_superblock(d, SUPERBLOCK_LOCATION)
    IN  IF ~r.ok THEN [dev |-> d, result |-> "Err"]
        ELSE write_superblock(d, SUPERBLOCK_LOCATION,
               [r.val EXCEPT !.flags.needs_check = TRUE])

MetadataOps == {"Format", "SetNeedsCheck"}

\* generate_metadata(opts) on the output device d
generate_metadata(async_io, num_cpus, op, d) ==
    LET e == make_engine(async_io, num_cpus)
        r == IF op = "Format" THEN format(d) ELSE set_needs_check(d)
    IN  [engine |-> e, dev |-> r.dev, result |-> r.result]

GenerateMetadata(async_io, num_cpus, op) ==
    /\ LET r == generate_metadata(async_io, num_cpus, op, dev)
       IN  dev' = r.dev /\ gen_result' = r.result /\ engine' = r.engine
    /\ gen_op' = op
    /\ dev_before' = dev
    /\ UNCHANGED <<core_vars, disk_sm_vars, codec_vars, dump_vars>>

\* one thin device with one mapped block
OneMapping == [t \in {1} |-> [l \in {0} |-> [block |-> 0, time |-> 0]]]

\* the superblocks of valid images
ValidSuperblocks ==
    {pack_superblock(
        [flags |-> [needs_check |-> nc], version |-> SUPERBLOCK_VERSION,
         time |-> tm, transaction_id |-> tid, mapping_root |-> 1,
         details_root |-> 2, data_block_size |-> dbs, nr_data_blocks |-> nr],
        SUPERBLOCK_LOCATION) :
       nc \in BOOLEAN, tm \in 0 .. MaxTime, tid \in 0 .. MaxTid,
       dbs \in DataBlockSizes, nr \in NrDataBlocks}

\* a superblock whose checksum no longer matches its contents
Torn(b) == [b EXCEPT !.csum = (b.csum + 1) % 65521]

\* the devices generate_metadata is pointed at: zeroed, valid, or with a torn superblock
InitGen ==
    /\ \/ dev = [sb |-> ZeroBlock, maps |-> << >>]
       \/ \E b \in ValidSuperblocks, m \in {<< >>, OneMapping} :
            dev \in {[sb |-> b, maps |-> m], [sb |-> Torn(b), maps |-> m]}
    /\ dev_before = << >>
    /\ gen_op = "none" /\ gen_result = "none" /\ engine = << >>
    /\ core_idle /\ disk_sm_idle /\ codec_idle /\ dump_idle

NextGen ==
    \E async_io \in BOOLEAN, num_cpus \in NumCpus, op \in MetadataOps :
        GenerateMetadata(async_io, num_cpus, op)

SpecGen == InitGen /\ [][NextGen]_vars

\* block 0 of d is block 0 of d0 with the needs_check flag set, the checksum
\* following and nothing else changed
SameButNeedsCheck(d, d0) ==
    /\ d.maps = d0.maps
    /\ \A f \in DOMAIN d.sb \ {"csum", "flags"} : d.sb[f] = d0.sb[f]
    /\ d.sb.flags = d0.sb.flags + (IF d0.sb.flags % 2 = 1 THEN 0 ELSE 1)
    /\ read_superblock(d, SUPERBLOCK_LOCATION).ok
    /\ read_superblock(d, SUPERBLOCK_LOCATION).val.flags.needs_check

\* C5: on a device with a readable superblock set_needs_check leaves block 0
\* holding the same superblock with needs_check set and every other field
\* unchanged; and a run that follows a successful run leaves the device as it
\* found it, whatever the flag was before the first.
C5_SetNeedsCheckIdempotent ==
    /\ []((gen_op = "SetNeedsCheck"
             /\ read_superblock(dev_before, SUPERBLOCK_LOCATION).ok)
            => (gen_result = "Ok" /\ SameButNeedsCheck(dev, dev_before)))
    /\ [][(gen_op = "SetNeedsCheck" /\ gen_result = "Ok"
             /\ gen_op' = "SetNeedsCheck")
            => (gen_result' = "Ok" /\ dev' = dev)]_vars

\* C5's case: set_needs_check has run on a device whose flag was already
\* set, as a run before it leaves it, and the device is as it was
C5_Witness ==
    /\ gen_op = "SetNeedsCheck" /\ gen_result = "Ok"
    /\ dev_before = dev
    /\ dev.sb.flags = 1 /\ dev.sb.transaction_id = 1 /\ dev.maps # << >>

\* an image that reads back as valid and empty: a readable superblock and no
\* thin device behind its roots
ValidEmptyImage(d) ==
    read_superblock(d, SUPERBLOCK_LOCATION).ok /\ d.maps = << >>

\* C7: when generate_metadata with op = Format returns Ok, the output device
\* reads back as a valid, empty metadata image.
C7_FormatEmitsEmptyImage ==
    (gen_op = "Format" /\ gen_result = "Ok") => ValidEmptyImage(dev)

-----------------------------------------------------------------------------
(* thin_dump and thin_restore, as tests/thin_dump.rs drives them.  The XML *)
(* is a sequence of elements whose attribute values are decimal digit      *)
(* strings.                                                                *)

\* largest logical block mapped in a thin device
MaxLBlock == 2

\* the thin device ids of the images
ThinIds == {1}

\* the data blocks a logical block is mapped to
DBlocks == {0, 1}

LBlocks == 0 .. MaxLBlock

\* a thin device's mapping tree: logical block -> (data block, time)
Mappings ==
    UNION {[L -> [block : DBlocks, time : 0 .. MaxTime]] : L \in SUBSET LBlocks}

\* the top-level tree: thin device id -> mapping tree
AllMaps == UNION {[D -> Mappings] : D \in SUBSET ThinIds}

\* a number printed in decimal, most significant digit first
RECURSIVE ToDec(_)
ToDec(n) == IF n < 10 THEN <<n>> ELSE ToDec(n \div 10) \o <<n % 10>>

\* a decimal digit string parsed
RECURSIVE FromDec(_)
FromDec(ds) ==
    IF Len(ds) = 0 THEN 0
    ELSE FromDec(SubSeq(ds, 1, Len(ds) - 1)) * 10 + ds[Len(ds)]

\* the length of the run of mappings starting at logical block l: logical and
\* data blocks both consecutive, same time
RECURSIVE run_len(_, _, _)
run_len(m, l, n) ==
    IF (l + n) \in DOMAIN m /\ m[l + n].block = m[l].block + n
       /\ m[l + n].time = m[l].time
    THEN run_len(m, l, n + 1)
    ELSE n

\* the mapping elements of one device from logical block l on: a run longer
\* than one block is a range_mapping, a lone block a single_mapping
RECURSIVE emit_mappings(_, _)
emit_mappings(m, l) ==
    IF l > MaxLBlock THEN << >>
    ELSE IF l \notin DOMAIN m THEN emit_mappings(m, l + 1)
    ELSE LET n == run_len(m, l, 1)
         IN  <<IF n > 1
               THEN [tag |-> "range_mapping", origin_begin |-> ToDec(l),
                     data_begin |-> ToDec(m[l].block), length |-> ToDec(n),
                     time |-> ToDec(m[l].time)]
               ELSE [tag |-> "single_mapping", origin_block |-> ToDec(l),
                     data_block |-> ToDec(m[l].block), time |-> ToDec(m[l].time)]>>
             \o emit_mappings(m, l + n)

\* the device elements from thin id t on, ascending
RECURSIVE emit_devices(_, _)
emit_devices(maps, t) ==
    IF \A u \in ThinIds : u < t THEN << >>
    ELSE IF t \notin DOMAIN maps THEN emit_devices(maps, t + 1)
    ELSE <<[tag |-> "device", dev_id |-> ToDec(t),
            mapped_blocks |-> ToDec(Cardinality(DOMAIN maps[t]))]>>
         \o emit_mappings(maps[t], 0)
         \o <<[tag |-> "/device"]>>
         \o emit_devices(maps, t + 1)

\* the XML of a superblock and the mappings behind it
dump_xml(sb, maps) ==
    <<[tag |-> "superblock", uuid |-> "", time |-> ToDec(sb.time),
       transaction |-> ToDec(sb.transaction_id),
       data_block_size |-> ToDec(sb.data_block_size),
       nr_data_blocks |-> ToDec(sb.nr_data_blocks)]>>
    \o emit_devices(maps, 1)
    \o <<[tag |-> "/superblock"]>>

\* the three superblock overrides of thin_dump
OverrideNames == {"transaction_id", "data_block_size", "nr_data_blocks"}

\* the name each missing override is reported by
ArgName(a) ==
    CASE a = "transaction_id" -> "transaction id"
      [] a = "data_block_size" -> "data block size"
      [] a = "nr_data_blocks" -> "nr data blocks"

\* the values the tests pass: --transaction-id=1 --data-block-size=128
\* --nr-data-blocks=20480
TestOverrides ==
    [transaction_id |-> 1, data_block_size |-> 128, nr_data_blocks |-> 20480]

with_overrides(sb, ov) ==
    [sb EXCEPT
       !.transaction_id = IF "transaction_id" \in DOMAIN ov THEN ov["transaction_id"] ELSE @,
       !.data_block_size = IF "data_block_size" \in DOMAIN ov THEN ov["data_block_size"] ELSE @,
       !.nr_data_blocks = IF "nr_data_blocks" \in DOMAIN ov THEN ov["nr_data_blocks"] ELSE @]

\* the latest time stamp found in the mappings
recovered_time(maps) ==
    LET ts == {maps[t][l].time : <<t, l>> \in {x \in ThinIds \X LBlocks :
                                   x[1] \in DOMAIN maps /\ x[2] \in DOMAIN maps[x[1]]}}
    IN  IF ts = {} THEN 0 ELSE CHOOSE t \in ts : \A u \in ts : u <= t

\* the superblocks the repair path can rebuild: an override where one is
\* given, a value recovered from the metadata where none is
rebuilt_superblocks(maps, ov) ==
    {with_overrides(
        [flags |-> [needs_check |-> FALSE], block |-> SUPERBLOCK_LOCATION,
         version |-> SUPERBLOCK_VERSION, time |-> recovered_time(maps),
         transaction_id |-> tid, mapping_root |-> 1, details_root |-> 2,
         data_block_size |-> 0, nr_data_blocks |-> nr], ov) :
       tid \in 0 .. MaxTid, nr \in NrDataBlocks}

\* a faulty variant of thin_dump: the repair path recovers every missing value
thin_dump_recover_all(image, args, rust) ==
    LET r == read_superblock(image, SUPERBLOCK_LOCATION)
    IN  IF r.ok
        THEN {[args |-> args, exit |-> 0, stderr |-> "",
               stdout |-> dump_xml(with_overrides(r.val, args.ov), image.maps)]}
        ELSE IF ~args.repair
        THEN {[args |-> args, exit |-> 1, stderr |-> "bad superblock", stdout |-> << >>]}
        ELSE {[args |-> args, exit |-> 0, stderr |-> "",
               stdout |-> dump_xml(sb, image.maps)] :
                sb \in rebuilt_superblocks(image.maps, args.ov)}

\* thin_dump [--repair] [overrides] image: the processes it may end as.  A
\* readable superblock is dumped with the overrides applied.  An unreadable
\* one ends the plain dump; with --repair a missing data block size always
\* ends the run naming a missing argument, a missing transaction id or number
\* of data blocks does so in the builds without rust_tests, and the Rust
\* tools may instead recover the value from the metadata.
thin_dump(image, args, rust) ==
    LET r == read_superblock(image, SUPERBLOCK_LOCATION)
        missing == OverrideNames \ DOMAIN args.ov
        fails == {[args |-> args, exit |-> 1, stderr |-> ArgName(a), stdout |-> << >>] :
                    a \in missing}
        repairs == {[args |-> args, exit |-> 0, stderr |-> "",
                     stdout |-> dump_xml(sb, image.maps)] :
                      sb \in rebuilt_superblocks(image.maps, args.ov)}
    IN  IF r.ok
        THEN {[args |-> args, exit |-> 0, stderr |-> "",
               stdout |-> dump_xml(with_overrides(r.val, args.ov), image.maps)]}
        ELSE IF ~args.repair
        THEN {[args |-> args, exit |-> 1, stderr |-> "bad superblock", stdout |-> << >>]}
        ELSE IF "data_block_size" \in missing \/ (~rust /\ missing # {})
        THEN fails
        ELSE IF missing = {} THEN repairs
        ELSE fails \cup repairs

\* the Restorer's state after one more element of the XML
restore_element(st, el) ==
    CASE el.tag = "superblock" ->
           [st EXCEPT !.sb = [time |-> FromDec(el.time),
                              transaction_id |-> FromDec(el.transaction),
                              data_block_size |-> FromDec(el.data_block_size),
                              nr_data_blocks |-> FromDec(el.nr_data_blocks)]]
      [] el.tag = "device" ->
           [st EXCEPT !.cur = FromDec(el.dev_id),
                      !.maps = tree_insert(st.maps, FromDec(el.dev_id), << >>)]
      [] el.tag = "single_mapping" ->
           [st EXCEPT !.maps[st.cur] =
              tree_insert(@, FromDec(el.origin_block),
                          [block |-> FromDec(el.data_block), time |-> FromDec(el.time)])]
      [] el.tag = "range_mapping" ->
           [st EXCEPT !.maps[st.cur] =
              [l \in DOMAIN @ \cup (FromDec(el.origin_begin) ..
                                    (FromDec(el.origin_begin) + FromDec(el.length) - 1)) |->
                 IF l >= FromDec(el.origin_begin)
                    /\ l < FromDec(el.origin_begin) + FromDec(el.length)
                 THEN [block |-> FromDec(el.data_begin) + (l - FromDec(el.origin_begin)),
                       time |-> FromDec(el.time)]
                 ELSE @[l]]]
      [] el.tag = "/device" -> [st EXCEPT !.cur = 0]
      [] el.tag = "/superblock" -> [st EXCEPT !.done = TRUE]

RECURSIVE restore_elements(_, _)
restore_elements(st, els) ==
    IF els = << >> THEN st
    ELSE restore_elements(restore_element(st, Head(els)), Tail(els))

\* a faulty variant of thin_restore: every mapping restored with time 0
thin_restore_drop_time(els) ==
    LET st == restore_elements([sb |-> << >>, maps |-> << >>, cur |-> 0, done |-> FALSE], els)
    IN  [sb |-> pack_superblock(
                  [flags |-> [needs_check |-> FALSE], version |-> SUPERBLOCK_VERSION,
                   time |-> st.sb.time, transaction_id |-> st.sb.transaction_id,
                   mapping_root |-> 3, details_root |-> 4,
                   data_block_size |-> st.sb.data_block_size,
                   nr_data_blocks |-> st.sb.nr_data_blocks], SUPERBLOCK_LOCATION),
         maps |-> [t \in DOMAIN st.maps |->
                     [l \in DOMAIN st.maps[t] |-> [st.maps[t][l] EXCEPT !.time = 0]]]]

\* thin_restore -i xml -o image: the image rebuilt from the XML, its trees
\* freshly allocated and its superblock written last
thin_restore(els) ==
    LET st == restore_elements([sb |-> << >>, maps |-> << >>, cur |-> 0, done |-> FALSE], els)
    IN  [sb |-> pack_superblock(
                  [flags |-> [needs_check |-> FALSE], version |-> SUPERBLOCK_VERSION,
                   time |-> st.sb.time, transaction_id |-> st.sb.transaction_id,
                   mapping_root |-> 3, details_root |-> 4,
                   data_block_size |-> st.sb.data_block_size,
                   nr_data_blocks |-> st.sb.nr_data_blocks], SUPERBLOCK_LOCATION),
         maps |-> st.maps]

NoArgs == [repair |-> FALSE, ov |-> << >>]

\* dump_restore_cycle: thin_dump of the valid image, its stdout saved as meta.xml
DumpToXml ==
    /\ pc = "start"
    /\ \E p \in thin_dump(md, NoArgs, rust_tests) :
         /\ p.exit = 0
         /\ run' = p /\ xml' = p.stdout
    /\ pc' = "dumped"
    /\ UNCHANGED <<md, md2, rust_tests, core_vars, disk_sm_vars, codec_vars, gen_vars>>

\* dump_restore_cycle: thin_restore of meta.xml into the zeroed image
Restore ==
    /\ pc = "dumped"
    /\ md2' = thin_restore(xml)
    /\ pc' = "restored"
    /\ UNCHANGED <<md, xml, run, rust_tests, core_vars, disk_sm_vars, codec_vars, gen_vars>>

\* dump_restore_cycle: thin_dump of the restored image
DumpAgain ==
    /\ pc = "restored"
    /\ \E p \in thin_dump(md2, NoArgs, rust_tests) : run' = p
    /\ pc' = "dumped2"
    /\ UNCHANGED <<md, xml, md2, rust_tests, core_vars, disk_sm_vars, codec_vars, gen_vars>>

\* damage_superblock: block 0 overwritten with zeros
DamageSuperblock ==
    /\ pc = "start"
    /\ md' = [md EXCEPT !.sb = ZeroBlock]
    /\ pc' = "damaged"
    /\ UNCHANGED <<xml, md2, run, rust_tests, core_vars, disk_sm_vars, codec_vars, gen_vars>>

\* thin_dump --repair on the damaged image with the overrides named in given
DumpRepair(given) ==
    /\ pc = "damaged"
    /\ \E p \in thin_dump(md, [repair |-> TRUE,
                               ov |-> [a \in given |-> TestOverrides[a]]], rust_tests) :
         run' = p
    /\ pc' = "repaired"
    /\ UNCHANGED <<md, xml, md2, rust_tests, core_vars, disk_sm_vars, codec_vars, gen_vars>>

\* the valid images the tests start from
ValidImages == {[sb |-> b, maps |-> m] : b \in ValidSuperblocks, m \in AllMaps}

InitDump ==
    /\ md \in ValidImages
    /\ xml = << >> /\ md2 = [sb |-> ZeroBlock, maps |-> << >>] /\ run = << >>
    /\ pc = "start"
    /\ rust_tests \in BOOLEAN
    /\ core_idle /\ disk_sm_idle /\ codec_idle /\ gen_idle

NextDump ==
    \/ DumpToXml
    \/ Restore
    \/ DumpAgain
    \/ DamageSuperblock
    \/ \E given \in SUBSET OverrideNames : DumpRepair(given)

SpecDump == InitDump /\ [][NextDump]_vars

Missing(p) == OverrideNames \ DOMAIN p.args.ov

\* the run ended nonzero, named one of its missing arguments and dumped nothing
FailedNamingMissing(p) ==
    /\ p.exit # 0
    /\ \E a \in Missing(p) : p.stderr = ArgName(a)
    /\ p.stdout = << >>

====
